---- MODULE Spec2Model ----
(***************************************************************************)
(* Lowering of query descriptors to creation / update instruction calls,  *)
(* packages/compiler/src/render3/view/query_generation.ts.                *)
(*                                                                         *)
(* Output-AST nodes are records tagged by `kind`; strings that the code    *)
(* splits and trims are sequences of one-character strings.                *)
(***************************************************************************)
EXTENDS Integers, Sequences, FiniteSets, TLC

VARIABLES pc, fn, queries, idx, createStatements, updateStatements,
          temp, tempAllocs, pool, poolLog, arg, argPrepend, argFns, ret

vars == <<pc, fn, queries, idx, createStatements, updateStatements,
          temp, tempAllocs, pool, poolLog, arg, argPrepend, argFns, ret>>

(***************************************************************************)
(* Bounds                                                                  *)
(***************************************************************************)
MaxQueries == 2
MaxLen == 2
MaxSelectors == 2
MaxPrepend == 2

(***************************************************************************)
(* Generic helpers                                                         *)
(***************************************************************************)
SeqsUpTo(S, n) == UNION {[1..k -> S] : k \in 0..n}

(***************************************************************************)
(* Output AST (output_ast.ts), values only                                 *)
(***************************************************************************)
Null == [kind |-> "null"]
Undefined == [kind |-> "undefined"]
StringLiteral(chars) == [kind |-> "literal", type |-> "string", value |-> chars]
NumberLiteral(n) == [kind |-> "literal", type |-> "number", value |-> n]
LiteralArr(entries) == [kind |-> "literalArr", entries |-> entries]
Variable(name) == [kind |-> "readVar", name |-> name]
ImportExpr(ref) == [kind |-> "external", ref |-> ref]
CallFn(callee, args) == [kind |-> "invokeFn", fn |-> callee, args |-> args]
ReadProp(receiver, name) == [kind |-> "readProp", receiver |-> receiver, name |-> name]
SetExpr(target, value) == [kind |-> "write", target |-> target, value |-> value]
AndExpr(lhs, rhs) == [kind |-> "binary", op |-> "&&", lhs |-> lhs, rhs |-> rhs]
ToStmt(expr) == [kind |-> "exprStmt", expr |-> expr]
\* a JavaScript array passed as an optional argument
ArrayOf(items) == [kind |-> "array", items |-> items]
FnParam(name, type) == [name |-> name, type |-> type]
FnExpr(params, body, name) == [kind |-> "fn", params |-> params, body |-> body, name |-> name]

CONTEXT_NAME == "ctx"
RENDER_FLAGS == "rf"
TEMPORARY_NAME == "_t"

\* renderFlagCheckIfStmt(flags, statements) of ./template
renderFlagCheckIfStmt(flag, statements) == [kind |-> "if", flag |-> flag, body |-> statements]

(***************************************************************************)
(* temporaryAllocator of ./util: one slot, filled by the first call        *)
(***************************************************************************)
temporaryAllocator(slot, allocs) ==
    IF slot = Null
    THEN [kind |-> "readVar", name |-> TEMPORARY_NAME, obj |-> allocs + 1]
    ELSE slot

(***************************************************************************)
(* ConstantPool.getConstLiteral(literal, forceShared)                      *)
(* The pool is the sequence of shared literals; a reference names the      *)
(* position of its literal.                                                *)
(***************************************************************************)
PoolIndex(p, literal) ==
    IF \E i \in 1..Len(p) : p[i] = literal
    THEN CHOOSE i \in 1..Len(p) : p[i] = literal
    ELSE 0

getConstLiteral(p, literal, forceShared) ==
    IF ~forceShared
    THEN [ret |-> literal, pool |-> p]
    ELSE IF PoolIndex(p, literal) # 0
         THEN [ret |-> [kind |-> "constRef", index |-> PoolIndex(p, literal)], pool |-> p]
         ELSE [ret |-> [kind |-> "constRef", index |-> Len(p) + 1],
               pool |-> Append(p, literal)]

(***************************************************************************)
(* QueryFlags and toQueryFlags                                             *)
(***************************************************************************)
QueryFlags_none == 0
QueryFlags_descendants == 1
QueryFlags_isStatic == 2
QueryFlags_emitDistinctChangesOnly == 4

\* JavaScript `|` on small non-negative integers, bit by bit
RECURSIVE BitOr(_, _)
BitOr(a, b) ==
    IF a = 0 THEN b
    ELSE IF b = 0 THEN a
    ELSE (IF (a % 2 = 1) \/ (b % 2 = 1) THEN 1 ELSE 0) + 2 * BitOr(a \div 2, b \div 2)

toQueryFlags_StaticBitWrong(query) ==
    BitOr(BitOr(IF query.descendants THEN QueryFlags_descendants ELSE QueryFlags_none,
                IF query.static THEN QueryFlags_descendants ELSE QueryFlags_none),
          IF query.emitDistinctChangesOnly THEN QueryFlags_emitDistinctChangesOnly
                                           ELSE QueryFlags_none)

toQueryFlags(query) ==
    BitOr(BitOr(IF query.descendants THEN QueryFlags_descendants ELSE QueryFlags_none,
                IF query.static THEN QueryFlags_isStatic ELSE QueryFlags_none),
          IF query.emitDistinctChangesOnly THEN QueryFlags_emitDistinctChangesOnly
                                           ELSE QueryFlags_none)

(***************************************************************************)
(* getQueryPredicate                                                       *)
(***************************************************************************)
IsSpace(c) == c = " "

\* String.prototype.split(','): the pieces between commas, empty ones kept
RECURSIVE SplitFrom(_, _)
SplitFrom(s, cur) ==
    IF s = <<>> THEN <<cur>>
    ELSE IF Head(s) = "," THEN <<cur>> \o SplitFrom(Tail(s), <<>>)
    ELSE SplitFrom(Tail(s), Append(cur, Head(s)))

Split(selector) == SplitFrom(selector, <<>>)

\* String.prototype.trim(): whitespace removed from both ends
RECURSIVE TrimStart(_)
TrimStart(s) == IF s # <<>> /\ IsSpace(Head(s)) THEN TrimStart(Tail(s)) ELSE s

RECURSIVE TrimEnd(_)
TrimEnd(s) ==
    IF s # <<>> /\ IsSpace(s[Len(s)]) THEN TrimEnd(SubSeq(s, 1, Len(s) - 1)) ELSE s

Trim(s) == TrimEnd(TrimStart(s))

SelectorLiterals_NoTrim(selector) ==
    [k \in 1..Len(Split(selector)) |-> StringLiteral(Split(selector)[k])]

\* selector.split(',').map((token) => o.literal(token.trim()))
SelectorLiterals(selector) ==
    [k \in 1..Len(Split(selector)) |-> StringLiteral(Trim(Split(selector)[k]))]

\* the forEach over query.predicate that fills `predicate`
RECURSIVE FlattenSelectors(_)
FlattenSelectors(selectors) ==
    IF selectors = <<>> THEN <<>>
    ELSE SelectorLiterals(Head(selectors)) \o FlattenSelectors(Tail(selectors))

IsArray(predicate) == predicate.variant = "selectors"

getQueryPredicate_WrapUnwrapped(query, constantPool) ==
    IF IsArray(query.predicate)
    THEN LET predicate == FlattenSelectors(query.predicate.selectors)
             got == getConstLiteral(constantPool, LiteralArr(predicate), TRUE)
         IN  [ret |-> got.ret, pool |-> got.pool,
              requests |-> <<[literal |-> LiteralArr(predicate), forceShared |-> TRUE]>>]
    ELSE [ret |-> CASE query.predicate.forwardRef = "None" -> query.predicate.expression
                    [] query.predicate.forwardRef \in {"Wrapped", "Unwrapped"} ->
                          CallFn(ImportExpr("resolveForwardRef"),
                                 <<query.predicate.expression>>)
                    [] OTHER -> Undefined,
          pool |-> constantPool, requests |-> <<>>]

getQueryPredicate_NotShared(query, constantPool) ==
    IF IsArray(query.predicate)
    THEN LET predicate == FlattenSelectors(query.predicate.selectors)
             got == getConstLiteral(constantPool, LiteralArr(predicate), FALSE)
         IN  [ret |-> got.ret, pool |-> got.pool,
              requests |-> <<[literal |-> LiteralArr(predicate), forceShared |-> FALSE]>>]
    ELSE [ret |-> CASE query.predicate.forwardRef \in {"None", "Unwrapped"} ->
                          query.predicate.expression
                    [] query.predicate.forwardRef = "Wrapped" ->
                          CallFn(ImportExpr("resolveForwardRef"),
                                 <<query.predicate.expression>>)
                    [] OTHER -> Undefined,
          pool |-> constantPool, requests |-> <<>>]

\* ret: the returned expression; pool: the constant pool afterwards;
\* requests: the getConstLiteral calls made
getQueryPredicate(query, constantPool) ==
    IF IsArray(query.predicate)
    THEN LET predicate == FlattenSelectors(query.predicate.selectors)
             got == getConstLiteral(constantPool, LiteralArr(predicate), TRUE)
         IN  [ret |-> got.ret, pool |-> got.pool,
              requests |-> <<[literal |-> LiteralArr(predicate), forceShared |-> TRUE]>>]
    ELSE [ret |-> CASE query.predicate.forwardRef \in {"None", "Unwrapped"} ->
                          query.predicate.expression
                    [] query.predicate.forwardRef = "Wrapped" ->
                          CallFn(ImportExpr("resolveForwardRef"),
                                 <<query.predicate.expression>>)
                    \* no case matches: the function falls off its end
                    [] OTHER -> Undefined,
          pool |-> constantPool, requests |-> <<>>]

(***************************************************************************)
(* createQueryCreateCall                                                   *)
(***************************************************************************)
\* the `parameters` array as pushed, given the resolved predicate
CreateParameters_ReadFirst(query, prependParams, predicate) ==
    (IF prependParams # Undefined THEN prependParams.items ELSE <<>>)
    \o (IF query.read # Null THEN <<query.read>> ELSE <<>>)
    \o (IF query.isSignal
        THEN <<ReadProp(Variable(CONTEXT_NAME), query.propertyName)>> ELSE <<>>)
    \o <<predicate, NumberLiteral(toQueryFlags(query))>>

CreateParameters(query, prependParams, predicate) ==
    (IF prependParams # Undefined THEN prependParams.items ELSE <<>>)
    \o (IF query.isSignal
        THEN <<ReadProp(Variable(CONTEXT_NAME), query.propertyName)>> ELSE <<>>)
    \o <<predicate, NumberLiteral(toQueryFlags(query))>>
    \o (IF query.read # Null THEN <<query.read>> ELSE <<>>)

createQueryCreateCall(query, constantPool, queryTypeFns, prependParams) ==
    LET resolved == getQueryPredicate(query, constantPool)
        parameters == CreateParameters(query, prependParams, resolved.ret)
        queryCreateFn == IF query.isSignal THEN queryTypeFns.signalBased
                                           ELSE queryTypeFns.nonSignal
    IN  [ret |-> CallFn(ImportExpr(queryCreateFn), parameters),
         pool |-> resolved.pool, requests |-> resolved.requests]

(***************************************************************************)
(* createViewQueriesFunction / createContentQueriesFunction                *)
(***************************************************************************)
AdvanceStmt == ToStmt(CallFn(ImportExpr("queryAdvance"), <<>>))

\* r3.queryRefresh(tmp = r3.loadQuery())
viewRefresh(temporary) ==
    CallFn(ImportExpr("queryRefresh"),
           <<SetExpr(temporary, CallFn(ImportExpr("loadQuery"), <<>>))>>)

contentRefresh(temporary) ==
    CallFn(ImportExpr("queryRefresh"),
           <<SetExpr(temporary, CallFn(ImportExpr("loadQuery"), <<>>))>>)

viewUpdateDirective(query, temporary) ==
    SetExpr(ReadProp(Variable(CONTEXT_NAME), query.propertyName),
            IF query.first THEN ReadProp(temporary, "first") ELSE temporary)

contentUpdateDirective_FirstSwapped(query, temporary) ==
    SetExpr(ReadProp(Variable(CONTEXT_NAME), query.propertyName),
            IF query.first THEN temporary ELSE ReadProp(temporary, "first"))

contentUpdateDirective(query, temporary) ==
    SetExpr(ReadProp(Variable(CONTEXT_NAME), query.propertyName),
            IF query.first THEN ReadProp(temporary, "first") ELSE temporary)

\* The update half of one forEach callback: the statement list, the
\* allocator's slot and its creation count afterwards.
viewUpdate_SignalSkipped(query, statements, slot, allocs) ==
    IF query.isSignal
    THEN [update |-> statements, temp |-> slot, allocs |-> allocs]
    ELSE LET temporary == temporaryAllocator(slot, allocs)
         IN  [update |-> Append(statements,
                                ToStmt(AndExpr(viewRefresh(temporary),
                                               viewUpdateDirective(query, temporary)))),
              temp |-> temporary,
              allocs |-> IF slot = Null THEN allocs + 1 ELSE allocs]

viewUpdate_EagerTemporary(query, statements, slot, allocs) ==
    LET temporary == temporaryAllocator(slot, allocs)
    IN  [update |-> Append(statements,
                           IF query.isSignal
                           THEN AdvanceStmt
                           ELSE ToStmt(AndExpr(viewRefresh(temporary),
                                               viewUpdateDirective(query, temporary)))),
         temp |-> temporary,
         allocs |-> IF slot = Null THEN allocs + 1 ELSE allocs]

viewUpdate(query, statements, slot, allocs) ==
    IF query.isSignal
    THEN [update |-> Append(statements, AdvanceStmt), temp |-> slot, allocs |-> allocs]
    ELSE LET temporary == temporaryAllocator(slot, allocs)
         IN  [update |-> Append(statements,
                                ToStmt(AndExpr(viewRefresh(temporary),
                                               viewUpdateDirective(query, temporary)))),
              temp |-> temporary,
              allocs |-> IF slot = Null THEN allocs + 1 ELSE allocs]

contentUpdate_NoContinue(query, statements, slot, allocs) ==
    LET temporary == temporaryAllocator(slot, allocs)
        advanced == IF query.isSignal THEN Append(statements, AdvanceStmt) ELSE statements
    IN  [update |-> Append(advanced,
                           ToStmt(AndExpr(contentRefresh(temporary),
                                          contentUpdateDirective(query, temporary)))),
         temp |-> temporary,
         allocs |-> IF slot = Null THEN allocs + 1 ELSE allocs]

contentUpdate(query, statements, slot, allocs) ==
    IF query.isSignal
    THEN [update |-> Append(statements, AdvanceStmt), temp |-> slot, allocs |-> allocs]
    ELSE LET temporary == temporaryAllocator(slot, allocs)
         IN  [update |-> Append(statements,
                                ToStmt(AndExpr(contentRefresh(temporary),
                                               contentUpdateDirective(query, temporary)))),
              temp |-> temporary,
              allocs |-> IF slot = Null THEN allocs + 1 ELSE allocs]

ViewQueryTypeFns == [signalBased |-> "viewQuerySignal", nonSignal |-> "viewQuery"]
ContentQueryTypeFns == [nonSignal |-> "contentQuery", signalBased |-> "contentQuerySignal"]
ContentPrependParams == ArrayOf(<<Variable("dirIndex")>>)

IsTruthyName(name) == name.kind = "string" /\ name.value # ""

(***************************************************************************)
(* Inputs                                                                  *)
(***************************************************************************)
E1 == [kind |-> "expr", id |-> "E1"]
E2 == [kind |-> "expr", id |-> "E2"]

SelectorList(selectors) == [variant |-> "selectors", selectors |-> selectors]
ExpressionPredicate(forwardRef, expression) ==
    [variant |-> "expression", forwardRef |-> forwardRef, expression |-> expression]

ForwardRefHandling == {"None", "Wrapped", "Unwrapped"}
\* a value outside the enum, as untyped callers can pass
UnknownForwardRef == "Unknown"

Sel_a_b == <<"a", ",", " ", "b">>
Sel_a == <<"a">>
Sel_b == <<"b">>

SynthPredicates ==
    {SelectorList(<<Sel_a_b>>), SelectorList(<<Sel_a, Sel_b>>), SelectorList(<<Sel_b>>),
     ExpressionPredicate("Wrapped", E1)}

\* descriptors of the synthesizer runs: every predicate with either lowering
\* strategy, and every propertyName / first / isSignal combination
SynthQueries ==
    [propertyName : {"foo"}, predicate : SynthPredicates,
     descendants : {TRUE}, static : {FALSE}, emitDistinctChangesOnly : {TRUE},
     isSignal : BOOLEAN, first : {FALSE}, read : {Null}]
    \cup
    [propertyName : {"foo", "bar"}, predicate : {ExpressionPredicate("Wrapped", E1)},
     descendants : {TRUE}, static : {FALSE}, emitDistinctChangesOnly : {TRUE},
     isSignal : BOOLEAN, first : BOOLEAN, read : {Null}]

QueryLists == SeqsUpTo(SynthQueries, MaxQueries)

ArrLit_b == LiteralArr(<<StringLiteral(Sel_b)>>)
ArrLit_c == LiteralArr(<<StringLiteral(<<"c">>)>>)
InitialPools == {<<>>, <<ArrLit_c, ArrLit_b>>}

Names == {Undefined, [kind |-> "string", value |-> ""], [kind |-> "string", value |-> "Foo"]}

Alphabet == {"a", " ", ","}
SelectorStrings == SeqsUpTo(Alphabet, MaxLen) \cup {Sel_a_b, <<"a", ",", "b">>, <<" ", "b", " ">>}

CallPredicates ==
    {SelectorList(<<Sel_a_b>>)}
    \cup {ExpressionPredicate(f, E1) : f \in ForwardRefHandling \cup {UnknownForwardRef}}

CallQueries ==
    [propertyName : {"foo", "bar"}, predicate : CallPredicates,
     descendants : BOOLEAN, static : BOOLEAN, emitDistinctChangesOnly : BOOLEAN,
     isSignal : BOOLEAN, first : BOOLEAN, read : {Null, E2}]

PredicateQueries ==
    [propertyName : {"foo"},
     predicate : {SelectorList(ss) : ss \in SeqsUpTo(SelectorStrings, MaxSelectors)}
                 \cup {ExpressionPredicate(f, e) :
                         f \in ForwardRefHandling \cup {UnknownForwardRef}, e \in {E1, E2}},
     descendants : {FALSE}, static : {FALSE}, emitDistinctChangesOnly : {FALSE},
     isSignal : {FALSE}, first : {FALSE}, read : {Null}]

PrependLists ==
    {Undefined} \cup {ArrayOf(ps) : ps \in SeqsUpTo({Variable("dirIndex"), E2}, MaxPrepend)}
QueryTypeFns == {ViewQueryTypeFns, ContentQueryTypeFns}

(***************************************************************************)
(* State machine                                                           *)
(***************************************************************************)
Init ==
    /\ pc = "idle"
    /\ fn = "none"
    /\ queries = <<>>
    /\ idx = 0
    /\ createStatements = <<>>
    /\ updateStatements = <<>>
    /\ temp = Null
    /\ tempAllocs = 0
    /\ pool = <<>>
    /\ poolLog = <<>>
    /\ arg = Null
    /\ argPrepend = Undefined
    /\ argFns = Undefined
    /\ ret = Null

\* entry of createViewQueriesFunction: the locals of lines 114-116
ViewStart ==
    /\ pc = "idle"
    /\ \E qs \in QueryLists, p \in InitialPools :
          /\ queries' = qs
          /\ pool' = p
    /\ pc' = "view"
    /\ fn' = "view"
    /\ idx' = 0
    /\ createStatements' = <<>>
    /\ updateStatements' = <<>>
    /\ temp' = Null
    /\ tempAllocs' = 0
    /\ poolLog' = <<>>
    /\ ret' = Null
    /\ UNCHANGED <<arg, argPrepend, argFns>>

\* one execution of the forEach callback
ViewIterate ==
    /\ pc = "view"
    /\ idx < Len(queries)
    /\ LET query == queries[idx + 1]
           queryDefinitionCall ==
               createQueryCreateCall(query, pool, ViewQueryTypeFns, Undefined)
           upd == viewUpdate(query, updateStatements, temp, tempAllocs)
       IN  /\ createStatements' = Append(createStatements, ToStmt(queryDefinitionCall.ret))
           /\ pool' = queryDefinitionCall.pool
           /\ poolLog' = poolLog \o queryDefinitionCall.requests
           /\ updateStatements' = upd.update
           /\ temp' = upd.temp
           /\ tempAllocs' = upd.allocs
    /\ idx' = idx + 1
    /\ UNCHANGED <<pc, fn, queries, arg, argPrepend, argFns, ret>>

ViewReturn ==
    /\ pc = "view"
    /\ idx = Len(queries)
    /\ \E name \in Names :
          LET viewQueryFnName ==
                  IF IsTruthyName(name) THEN [kind |-> "string", value |-> name.value \o "_Query"]
                  ELSE Null
          IN  ret' = FnExpr(<<FnParam(RENDER_FLAGS, "number"), FnParam(CONTEXT_NAME, Null)>>,
                            <<renderFlagCheckIfStmt("Create", createStatements),
                              renderFlagCheckIfStmt("Update", updateStatements)>>,
                            viewQueryFnName)
    /\ pc' = "returned"
    /\ UNCHANGED <<fn, queries, idx, createStatements, updateStatements, temp, tempAllocs,
                   pool, poolLog, arg, argPrepend, argFns>>

ContentStart ==
    /\ pc = "idle"
    /\ \E qs \in QueryLists, p \in InitialPools :
          /\ queries' = qs
          /\ pool' = p
    /\ pc' = "content"
    /\ fn' = "content"
    /\ idx' = 0
    /\ createStatements' = <<>>
    /\ updateStatements' = <<>>
    /\ temp' = Null
    /\ tempAllocs' = 0
    /\ poolLog' = <<>>
    /\ ret' = Null
    /\ UNCHANGED <<arg, argPrepend, argFns>>

\* one iteration of the for-of loop
ContentIterate ==
    /\ pc = "content"
    /\ idx < Len(queries)
    /\ LET query == queries[idx + 1]
           call == createQueryCreateCall(query, pool, ContentQueryTypeFns,
                                         ContentPrependParams)
           upd == contentUpdate(query, updateStatements, temp, tempAllocs)
       IN  /\ createStatements' = Append(createStatements, ToStmt(call.ret))
           /\ pool' = call.pool
           /\ poolLog' = poolLog \o call.requests
           /\ updateStatements' = upd.update
           /\ temp' = upd.temp
           /\ tempAllocs' = upd.allocs
    /\ idx' = idx + 1
    /\ UNCHANGED <<pc, fn, queries, arg, argPrepend, argFns, ret>>

ContentReturn ==
    /\ pc = "content"
    /\ idx = Len(queries)
    /\ \E name \in Names :
          LET contentQueriesFnName ==
                  IF IsTruthyName(name)
                  THEN [kind |-> "string", value |-> name.value \o "_ContentQueries"]
                  ELSE Null
          IN  ret' = FnExpr(<<FnParam(RENDER_FLAGS, "number"), FnParam(CONTEXT_NAME, Null),
                              FnParam("dirIndex", Null)>>,
                            <<renderFlagCheckIfStmt("Create", createStatements),
                              renderFlagCheckIfStmt("Update", updateStatements)>>,
                            contentQueriesFnName)
    /\ pc' = "returned"
    /\ UNCHANGED <<fn, queries, idx, createStatements, updateStatements, temp, tempAllocs,
                   pool, poolLog, arg, argPrepend, argFns>>

(***************************************************************************)
(* Direct calls of the exported helpers and of toQueryFlags                *)
(***************************************************************************)
CallToQueryFlags ==
    /\ pc = "idle"
    /\ \E query \in CallQueries :
          /\ arg' = query
          /\ ret' = toQueryFlags(query)
    /\ pc' = "toQueryFlags"
    /\ argPrepend' = Undefined
    /\ argFns' = Undefined
    /\ pool' = <<>>
    /\ poolLog' = <<>>
    /\ UNCHANGED <<fn, queries, idx, createStatements, updateStatements, temp, tempAllocs>>

CallGetQueryPredicate ==
    /\ pc = "idle"
    /\ \E query \in PredicateQueries, p \in InitialPools :
          LET got == getQueryPredicate(query, p)
          IN  /\ arg' = query
              /\ ret' = got.ret
              /\ pool' = got.pool
              /\ poolLog' = got.requests
    /\ pc' = "getQueryPredicate"
    /\ argPrepend' = Undefined
    /\ argFns' = Undefined
    /\ UNCHANGED <<fn, queries, idx, createStatements, updateStatements, temp, tempAllocs>>

CallCreateQueryCreateCall ==
    /\ pc = "idle"
    /\ \E query \in CallQueries, fns \in QueryTypeFns, prependParams \in PrependLists :
          LET got == createQueryCreateCall(query, <<>>, fns, prependParams)
          IN  /\ arg' = query
              /\ argPrepend' = prependParams
              /\ argFns' = fns
              /\ ret' = got.ret
              /\ pool' = got.pool
              /\ poolLog' = got.requests
    /\ pc' = "createQueryCreateCall"
    /\ UNCHANGED <<fn, queries, idx, createStatements, updateStatements, temp, tempAllocs>>

\* The caller takes the returned value; the locals of the finished call are
\* gone, the slot of its allocator is left as it was.
Consume ==
    /\ pc \in {"returned", "toQueryFlags", "getQueryPredicate", "createQueryCreateCall"}
    /\ pc' = "idle"
    /\ fn' = "none"
    /\ queries' = <<>>
    /\ idx' = 0
    /\ createStatements' = <<>>
    /\ updateStatements' = <<>>
    /\ pool' = <<>>
    /\ poolLog' = <<>>
    /\ arg' = Null
    /\ argPrepend' = Undefined
    /\ argFns' = Undefined
    /\ ret' = Null
    /\ UNCHANGED <<temp, tempAllocs>>

Next ==
    \/ ViewStart
    \/ ViewIterate
    \/ ViewReturn
    \/ ContentStart
    \/ ContentIterate
    \/ ContentReturn
    \/ CallCreateQueryCreateCall
    \/ Consume

Spec == Init /\ [][Next]_vars

NextCall ==
    \/ CallToQueryFlags
    \/ CallGetQueryPredicate
    \/ CallCreateQueryCreateCall
    \/ Consume

SpecCall == Init /\ [][NextCall]_vars

(***************************************************************************)
(* Properties                                                              *)
(***************************************************************************)
InSynthesizer == pc \in {"view", "content", "returned"}

\* number of arguments in front of the predicate in the creation call of `query`
PredicateOffset(query) ==
    (IF fn = "content" THEN 1 ELSE 0) + (IF query.isSignal THEN 1 ELSE 0)

CreateCallee(query) ==
    IF fn = "view"
    THEN (IF query.isSignal THEN "viewQuerySignal" ELSE "viewQuery")
    ELSE (IF query.isSignal THEN "contentQuerySignal" ELSE "contentQuery")

IsAdvance(stmt) ==
    stmt = [kind |-> "exprStmt",
            expr |-> [kind |-> "invokeFn",
                      fn |-> [kind |-> "external", ref |-> "queryAdvance"],
                      args |-> <<>>]]

C2_CreateCallArguments ==
    /\ pc = "createQueryCreateCall" =>
          LET pre == IF argPrepend = Undefined THEN <<>> ELSE argPrepend.items
              n == Len(pre)
              sig == IF arg.isSignal THEN 1 ELSE 0
              rd == IF arg.read = Null THEN 0 ELSE 1
          IN  /\ ret.kind = "invokeFn"
              /\ ret.fn = [kind |-> "external",
                           ref |-> IF arg.isSignal THEN argFns.signalBased
                                                   ELSE argFns.nonSignal]
              /\ Len(ret.args) = n + sig + 2 + rd
              /\ \A i \in 1..n : ret.args[i] = pre[i]
              /\ arg.isSignal =>
                    ret.args[n + 1] = [kind |-> "readProp",
                                       receiver |-> [kind |-> "readVar", name |-> "ctx"],
                                       name |-> arg.propertyName]
              /\ ret.args[n + sig + 1] = getQueryPredicate(arg, <<>>).ret
              /\ ret.args[n + sig + 2] = [kind |-> "literal", type |-> "number",
                                          value |-> toQueryFlags(arg)]
              /\ arg.read # Null => ret.args[n + sig + 3] = arg.read
    /\ (InSynthesizer /\ fn = "content") =>
          \A i \in 1..Len(createStatements) :
             createStatements[i].expr.args[1] = [kind |-> "readVar", name |-> "dirIndex"]

C2_Witness ==
    /\ pc = "createQueryCreateCall"
    /\ argPrepend # Undefined
    /\ Len(argPrepend.items) = 2
    /\ argPrepend.items[1] # argPrepend.items[2]
    /\ arg.isSignal
    /\ arg.read # Null
    /\ Len(ret.args) = 6

\* C3: the update statement of a non-signal descriptor, in either
\* synthesizer, is refresh(temporary = loadQuery()) && (ctx.propertyName = v)
\* where v is temporary.first when descriptor.first holds and the temporary
\* itself otherwise.
C3_NonSignalUpdate ==
    InSynthesizer =>
       \A i \in 1..idx :
          ~queries[i].isSignal =>
             /\ i <= Len(updateStatements)
             /\ LET e == updateStatements[i].expr
                    t == e.lhs.args[1].target
                IN  /\ updateStatements[i].kind = "exprStmt"
                    /\ e.kind = "binary"
                    /\ e.op = "&&"
                    /\ t.kind = "readVar"
                    /\ t.name = "_t"
                    /\ e.lhs = [kind |-> "invokeFn",
                                fn |-> [kind |-> "external", ref |-> "queryRefresh"],
                                args |-> <<[kind |-> "write", target |-> t,
                                            value |-> [kind |-> "invokeFn",
                                                       fn |-> [kind |-> "external",
                                                               ref |-> "loadQuery"],
                                                       args |-> <<>>]]>>]
                    /\ e.rhs.kind = "write"
                    /\ e.rhs.target = [kind |-> "readProp",
                                       receiver |-> [kind |-> "readVar", name |-> "ctx"],
                                       name |-> queries[i].propertyName]
                    /\ queries[i].first =>
                          e.rhs.value = [kind |-> "readProp", receiver |-> t,
                                         name |-> "first"]
                    /\ ~queries[i].first => e.rhs.value = t

C3_Witness ==
    /\ pc = "returned"
    /\ fn = "content"
    /\ Len(queries) = 2
    /\ ~queries[1].isSignal /\ queries[1].first
    /\ ~queries[2].isSignal /\ ~queries[2].first
    /\ updateStatements[1].expr.rhs.value.kind = "readProp"
    /\ updateStatements[2].expr.rhs.value.kind = "readVar"

\* C4: processing a signal descriptor, in either synthesizer and for either
\* value of `first`, appends exactly one statement to the update list, the
\* zero-argument advance call, and does not touch the temporary allocator.
C4_SignalAdvance ==
    [][(pc \in {"view", "content"} /\ idx' = idx + 1 /\ queries[idx + 1].isSignal) =>
          /\ updateStatements' =
                Append(updateStatements,
                       [kind |-> "exprStmt",
                        expr |-> [kind |-> "invokeFn",
                                  fn |-> [kind |-> "external", ref |-> "queryAdvance"],
                                  args |-> <<>>]])
          /\ temp' = temp
          /\ tempAllocs' = tempAllocs]_vars

C4_Witness ==
    /\ pc = "content"
    /\ idx = 2
    /\ queries[1].isSignal /\ queries[1].first
    /\ queries[2].isSignal /\ ~queries[2].first
    /\ Len(updateStatements) = 2
    /\ temp = Null

\* C5: a forward-reference disposition outside None / Unwrapped / Wrapped
\* makes getQueryPredicate raise an error: no value is returned and no
\* creation call is built.
Thrown == [kind |-> "error"]

C5_UnknownDispositionFailsFast ==
    (/\ pc \in {"getQueryPredicate", "createQueryCreateCall"}
     /\ arg.predicate.variant = "expression"
     /\ arg.predicate.forwardRef \notin ForwardRefHandling)
       => ret = Thrown

\* C6: for an expression predicate getQueryPredicate returns the original
\* expression when the disposition is None or Unwrapped, and a call of
\* resolveForwardRef whose only argument is the original expression when it
\* is Wrapped; the constant pool is not involved.
C6_ForwardRefHandling ==
    (pc = "getQueryPredicate" /\ arg.predicate.variant = "expression") =>
       /\ arg.predicate.forwardRef \in {"None", "Unwrapped"} =>
             ret = arg.predicate.expression
       /\ arg.predicate.forwardRef = "Wrapped" =>
             /\ ret.kind = "invokeFn"
             /\ ret.fn = [kind |-> "external", ref |-> "resolveForwardRef"]
             /\ ret.args = <<arg.predicate.expression>>
             /\ ret.args[1].kind = "expr"
       /\ poolLog = <<>>

C6_Witness ==
    /\ pc = "getQueryPredicate"
    /\ arg.predicate.variant = "expression"
    /\ arg.predicate.forwardRef = "Wrapped"
    /\ arg.predicate.expression = E2
    /\ ret.args = <<E2>>

(* The pieces of a selector, by position *)
CommaCount(s) == Cardinality({i \in 1..Len(s) : s[i] = ","})

\* position of the k-th comma of s; 0 before the first piece, Len(s)+1 after the last
CommaPos(s, k) ==
    IF k = 0 THEN 0
    ELSE IF k > CommaCount(s) THEN Len(s) + 1
    ELSE CHOOSE i \in 1..Len(s) :
            s[i] = "," /\ Cardinality({j \in 1..i : s[j] = ","}) = k

TrimmedPiece(s, k) ==
    LET inside == {i \in (CommaPos(s, k - 1) + 1)..(CommaPos(s, k) - 1) : s[i] # " "}
    IN  IF inside = {} THEN <<>>
        ELSE LET lo == CHOOSE i \in inside : \A j \in inside : i <= j
                 hi == CHOOSE i \in inside : \A j \in inside : j <= i
             IN  [x \in 1..(hi - lo + 1) |-> s[lo + x - 1]]

PieceSlots(selectors) ==
    UNION {{<<j, k>> : k \in 1..(CommaCount(selectors[j]) + 1)} : j \in 1..Len(selectors)}

SlotIndex(selectors, j, k) ==
    Cardinality({sl \in PieceSlots(selectors) : sl[1] < j \/ (sl[1] = j /\ sl[2] <= k)})

\* C7: for a selector-list predicate the literal array requested from the
\* constant pool has (number of selectors + total number of commas)
\* entries: piece k of selector j, trimmed, at the position given by
\* selector order then piece order, duplicates kept.
C7_SelectorFlattening ==
    (pc = "getQueryPredicate" /\ arg.predicate.variant = "selectors") =>
       LET selectors == arg.predicate.selectors
       IN  /\ Len(poolLog) = 1
           /\ poolLog[1].literal.kind = "literalArr"
           /\ LET entries == poolLog[1].literal.entries
              IN  /\ Len(entries) = Len(selectors) + Cardinality(
                        {<<j, i>> \in (1..Len(selectors)) \X (1..(MaxLen + 5)) :
                            i <= Len(selectors[j]) /\ selectors[j][i] = ","})
                  /\ \A sl \in PieceSlots(selectors) :
                        entries[SlotIndex(selectors, sl[1], sl[2])] =
                           [kind |-> "literal", type |-> "string",
                            value |-> TrimmedPiece(selectors[sl[1]], sl[2])]

C7_Witness ==
    /\ pc = "getQueryPredicate"
    /\ arg.predicate.variant = "selectors"
    /\ arg.predicate.selectors = <<<<"a", ",", " ", "b">>, <<" ", "a">>>>
    /\ poolLog[1].literal.entries =
          <<StringLiteral(<<"a">>), StringLiteral(<<"b">>), StringLiteral(<<"a">>)>>

ExpectedFlat(selectors) ==
    [n \in 1..Cardinality(PieceSlots(selectors)) |->
        LET sl == CHOOSE x \in PieceSlots(selectors) : SlotIndex(selectors, x[1], x[2]) = n
        IN  TrimmedPiece(selectors[sl[1]], sl[2])]

PredicateArg(i) == createStatements[i].expr.args[PredicateOffset(queries[i]) + 1]

\* C8: in one synthesizer run, two descriptors whose selector lists flatten
\* to the same sequence get the same constant-pool reference as predicate
\* argument, whatever their positions and original selector strings; every
\* request to the pool has the force-shared flag set.
C8_SharedPredicateConstant ==
    InSynthesizer =>
       /\ \A i, j \in 1..idx :
             (/\ queries[i].predicate.variant = "selectors"
              /\ queries[j].predicate.variant = "selectors"
              /\ ExpectedFlat(queries[i].predicate.selectors) =
                    ExpectedFlat(queries[j].predicate.selectors))
                => /\ PredicateArg(i).kind = "constRef"
                   /\ PredicateArg(i) = PredicateArg(j)
       /\ \A r \in 1..Len(poolLog) : poolLog[r].forceShared

C8_Witness ==
    /\ pc = "returned"
    /\ Len(queries) = 2
    /\ queries[1].predicate = SelectorList(<<Sel_a_b>>)
    /\ queries[2].predicate = SelectorList(<<Sel_a, Sel_b>>)
    /\ queries[1].isSignal /\ ~queries[2].isSignal
    /\ PredicateArg(1) = PredicateArg(2)
    /\ Len(poolLog) = 2

\* C9: toQueryFlags returns 1*descendants + 2*static + 4*emitDistinctChangesOnly,
\* a number in 0..7; two descriptors get the same result exactly when the
\* three traits agree, whatever their other fields.
C9_FlagEncoding ==
    pc = "toQueryFlags" =>
       /\ ret = (IF arg.descendants THEN 1 ELSE 0) + (IF arg.static THEN 2 ELSE 0)
                + (IF arg.emitDistinctChangesOnly THEN 4 ELSE 0)
       /\ ret \in 0..7
       /\ \A other \in CallQueries :
             (toQueryFlags(other) = ret) <=>
                (/\ other.descendants = arg.descendants
                 /\ other.static = arg.static
                 /\ other.emitDistinctChangesOnly = arg.emitDistinctChangesOnly)

C9_Witness ==
    /\ pc = "toQueryFlags"
    /\ arg.descendants /\ ~arg.static /\ arg.emitDistinctChangesOnly
    /\ arg.isSignal /\ arg.read # Null
    /\ ret = 5

\* C10: in one synthesizer run the allocator creates its reference at most
\* once, exactly when the first non-signal descriptor is processed (never
\* for signal-only or empty lists, whatever an earlier run allocated), and
\* every non-signal update statement uses that one reference.
C10_SingleTemporary ==
    InSynthesizer =>
       LET nonSignal == {i \in 1..idx : ~queries[i].isSignal}
       IN  /\ tempAllocs = (IF nonSignal = {} THEN 0 ELSE 1)
           /\ (temp = Null) <=> (nonSignal = {})
           /\ \A i \in nonSignal :
                 /\ i <= Len(updateStatements)
                 /\ updateStatements[i].expr.lhs.args[1].target = temp
                 /\ updateStatements[i].expr.rhs.value \in
                       {temp, [kind |-> "readProp", receiver |-> temp, name |-> "first"]}

C10_Witness ==
    /\ pc = "returned"
    /\ fn = "view"
    /\ Len(queries) = 2
    /\ ~queries[1].isSignal
    /\ ~queries[2].isSignal
    /\ tempAllocs = 1
    /\ updateStatements[1].expr.lhs.args[1].target = updateStatements[2].expr.lhs.args[1].target

====
